---- MODULE Spec2Model ----
(***************************************************************************)
(* VanillaML: the mini-batch SGD training loop of MLPClassifier             *)
(* (vanilla_ml/supervised/classification/mlp_classifier.py) together with  *)
(* the process-wide numpy generator that vanilla_ml/util/misc.py shares     *)
(* with it.                                                                *)
(*                                                                         *)
(* The sources are Python 2 (misc.py uses urllib.URLopener and imports      *)
(* division from __future__; mlp_classifier.py does not import it), so      *)
(* `n_samples / self.batch_size` at mlp_classifier.py:69 is the floor       *)
(* division of two ints.                                                   *)
(*                                                                         *)
(* Numeric arrays are abstracted to residues modulo Q: a batch of rows, a   *)
(* weight matrix, a gradient are each one residue, and the layer formulas   *)
(* of the engine (affine map, logistic derivative, fused softmax/cross-     *)
(* entropy gradient, SGD update) are evaluated on residues.  The layer,     *)
(* container and loss classes are imported by mlp_classifier.py from        *)
(* modules that are not part of the sources at hand; their operators below  *)
(* follow the engine's specification.                                      *)
(***************************************************************************)
EXTENDS Integers, Sequences, FiniteSets

VARIABLES clf, rng, pc, frame, last, calls, covered, trajectory, meter, built,
          split

vars == <<clf, rng, pc, frame, last, calls, covered, trajectory, meter, built,
          split>>

----------------------------------------------------------------------------
(* Bounds of the model.                                                     *)

MaxSamples == 3
MaxBatch == 2
MaxEpochs == 2

(* Numeric arrays are residues modulo Q; the generator has RngMod states.   *)
Q == 3
RngMod == 4
RngStates == 0..(RngMod - 1)

\* Python's None, for each kind of value the model compares it with: an
\* error or argument (a string), an object (a record), the class array
\* (labels are never negative), the layer chain (a built chain has at least
\* four layers).
None == "None"
NoObject == [none |-> TRUE]
NoClasses == <<-1>>
NoModel == <<[kind |-> "None"]>>

Labels == {0, 1}
Features == {2}
LayerConfigs == {<<>>, <<2>>, <<3, 2>>}
LearningRates == {-1, 0, 1}
Tolerances == {0, 1}
Seeds == {1}

SeqsUpTo(S, n) == UNION {[1..k -> S] : k \in 0..n}

RECURSIVE SumSeq(_)
SumSeq(s) == IF s = <<>> THEN 0 ELSE Head(s) + SumSeq(Tail(s))

Residue(v) == v % Q

RECURSIVE SetToSortedSeq(_)
SetToSortedSeq(S) ==
    IF S = {} THEN <<>>
    ELSE LET m == CHOOSE x \in S : \A z \in S : x <= z
         IN <<m>> \o SetToSortedSeq(S \ {m})

Range(s) == {s[i] : i \in DOMAIN s}

Min(a, b) == IF a <= b THEN a ELSE b

----------------------------------------------------------------------------
(* The process-wide numpy generator.                                        *)

\* A seeding that has no effect.
NpRandomSeedKept(r, s) == r

\* np.random.seed(s): the generator's state becomes a function of s alone.
NpRandomSeed(r, s) == s % RngMod

\* One draw (an array of normals, a permutation) advances the generator.
NpRandomDraw(r) == (r + 1) % RngMod

----------------------------------------------------------------------------
(* The network engine: layers, the Sequential container, the loss.          *)

\* Linear(in_dim, out_dim): weight drawn from the generator, bias zero,
\* gradient buffers empty, no cached input.
Linear(input_size, output_size, r) ==
    [layer |-> [kind |-> "Linear", nin |-> input_size, nout |-> output_size,
                W |-> Residue(r), b |-> 0, dW |-> 0, db |-> 0, x |-> 0],
     rng   |-> NpRandomDraw(r)]

Sigmoid == [kind |-> "Sigmoid", y |-> 0]

Softmax(skip) == [kind |-> "Softmax", skip_bprop |-> skip]

CrossEntropyLoss(avg, fuse) == [size_average |-> avg, do_softmax_bprop |-> fuse]

\* forward(input) -> output, each layer caching what its backward pass needs
LayerFprop(l, x) ==
    CASE l.kind = "Linear"  -> [layer |-> [l EXCEPT !.x = x],
                                out   |-> Residue(x * l.W + l.b)]
      [] l.kind = "Sigmoid" -> LET y == Residue(x + 1)
                               IN [layer |-> [l EXCEPT !.y = y], out |-> y]
      [] l.kind = "Softmax" -> [layer |-> l, out |-> Residue(2 * x)]

\* backward(grad_output) -> grad_input, a Linear layer keeping its gradients
LayerBprop(l, g) ==
    CASE l.kind = "Linear"  -> [layer |-> [l EXCEPT !.dW = Residue(l.x * g),
                                                    !.db = g],
                                grad  |-> Residue(g * l.W)]
      [] l.kind = "Sigmoid" -> [layer |-> l,
                                grad  |-> Residue(g * l.y * (1 - l.y))]
      [] l.kind = "Softmax" -> [layer |-> l,
                                grad  |-> IF l.skip_bprop THEN g
                                          ELSE Residue(g * 2)]

\* update(params): weight -= lrate * grad_weight; bias -= lrate * grad_bias
LayerUpdate(l, params) ==
    IF l.kind = "Linear"
    THEN [l EXCEPT !.W = Residue(l.W - params.lrate * l.dW),
                   !.b = Residue(l.b - params.lrate * l.db)]
    ELSE l

\* The input that reaches layer i of the chain when x is fed to the first
\* layer (layer Len(model) + 1 stands for the caller).
RECURSIVE FpropInput(_, _, _)
FpropInput(model, i, x) ==
    IF i <= 1 THEN x
    ELSE LayerFprop(model[i - 1], FpropInput(model, i - 1, x)).out

\* Sequential.fprop: the layers in forward order, each fed the output of the
\* one before it and keeping its own cache
SeqFprop(model, x) ==
    [model |-> [i \in 1..Len(model) |->
                  LayerFprop(model[i], FpropInput(model, i, x)).layer],
     out   |-> FpropInput(model, Len(model) + 1, x)]

\* The gradient that reaches layer i of the chain when g is fed to the last
\* layer (layer 0 stands for the caller).
RECURSIVE BpropGrad(_, _, _)
BpropGrad(model, i, g) ==
    IF i >= Len(model) THEN g
    ELSE LayerBprop(model[i + 1], BpropGrad(model, i + 1, g)).grad

\* Sequential.bprop: the layers in reverse order, each fed the gradient the
\* one after it returned
SeqBprop(model, g) ==
    [model |-> [i \in 1..Len(model) |->
                  LayerBprop(model[i], BpropGrad(model, i, g)).layer],
     grad  |-> BpropGrad(model, 0, g)]

\* Sequential.update: every owned layer
SeqUpdate(model, params) ==
    [i \in 1..Len(model) |-> LayerUpdate(model[i], params)]

\* CrossEntropyLoss.fprop: the cost of a prediction against its targets
LossFprop(loss, out, target) == Residue(out + 2 * target)

\* CrossEntropyLoss.bprop: fused, (predicted - one_hot(target)) / batch_size
LossBprop(loss, out, target) ==
    IF loss.do_softmax_bprop THEN Residue(out - target)
    ELSE Residue(0 - target)

\* The learnable parameters of a layer chain.
Parameters(model) ==
    [i \in 1..Len(model) |->
        IF model[i].kind = "Linear" THEN <<model[i].W, model[i].b>> ELSE <<>>]

\* The chain itself: kinds and declared dimensions, without the numbers.
Chain(model) ==
    [i \in 1..Len(model) |->
        IF model[i].kind = "Linear"
        THEN <<"Linear", model[i].nin, model[i].nout>>
        ELSE <<model[i].kind>>]

----------------------------------------------------------------------------
(* _build_model(input_size, layer_sizes, output_size)                       *)

\* for i in range(len(layer_sizes)): Linear, Sigmoid.  i counts from 0 as in
\* the source; layer_sizes[i] of the source is layer_sizes[i + 1] here.
RECURSIVE BuildHidden(_, _, _, _, _)
BuildHidden(i, input_size, layer_sizes, model, r) ==
    IF i >= Len(layer_sizes) THEN [model |-> model, rng |-> r]
    ELSE LET lin == IF i = 0
                    THEN Linear(input_size, layer_sizes[i + 1], r)
                    ELSE Linear(layer_sizes[i], layer_sizes[i + 1], r)
         IN BuildHidden(i + 1, input_size, layer_sizes,
                        Append(Append(model, lin.layer), Sigmoid), lin.rng)

\* The output layer sized from the first hidden width instead of the last.
BuildModelFirstWidth(input_size, layer_sizes, output_size, r) ==
    LET h == BuildHidden(0, input_size, layer_sizes, <<>>, r)
    IN IF Len(layer_sizes) = 0
       THEN [err |-> "IndexError", model |-> NoModel, loss |-> NoObject,
             rng |-> h.rng]
       ELSE LET lin == Linear(layer_sizes[1], output_size, h.rng)
            IN [err   |-> None,
                model |-> Append(Append(h.model, lin.layer), Softmax(TRUE)),
                loss  |-> CrossEntropyLoss(TRUE, TRUE),
                rng   |-> lin.rng]

\* A final Softmax that is not told to skip its backward pass.
BuildModelNoSkip(input_size, layer_sizes, output_size, r) ==
    LET h == BuildHidden(0, input_size, layer_sizes, <<>>, r)
    IN IF Len(layer_sizes) = 0
       THEN [err |-> "IndexError", model |-> NoModel, loss |-> NoObject,
             rng |-> h.rng]
       ELSE LET lin == Linear(layer_sizes[Len(layer_sizes)], output_size, h.rng)
            IN [err   |-> None,
                model |-> Append(Append(h.model, lin.layer), Softmax(FALSE)),
                loss  |-> CrossEntropyLoss(TRUE, TRUE),
                rng   |-> lin.rng]

\* The whole function; r is the state of the process-wide generator, which
\* the Linear constructors draw from.  layer_sizes[-1] of an empty list
\* raises IndexError.
BuildModel(input_size, layer_sizes, output_size, r) ==
    LET h == BuildHidden(0, input_size, layer_sizes, <<>>, r)
    IN IF Len(layer_sizes) = 0
       THEN [err |-> "IndexError", model |-> NoModel, loss |-> NoObject,
             rng |-> h.rng]
       ELSE LET lin == Linear(layer_sizes[Len(layer_sizes)], output_size, h.rng)
            IN [err   |-> None,
                model |-> Append(Append(h.model, lin.layer), Softmax(TRUE)),
                loss  |-> CrossEntropyLoss(TRUE, TRUE),
                rng   |-> lin.rng]

----------------------------------------------------------------------------
(* MLPClassifier                                                            *)

\* A constructor that does not check the learning rate.
InitErrorNoRateCheck(fit_bias, learning_rate) ==
    IF fit_bias THEN "fit_bias is not supported." ELSE None

\* The two assertions of __init__, in order.
InitError(fit_bias, learning_rate) ==
    IF ~(learning_rate > 0) THEN "Learning rate must be positive."
    ELSE IF fit_bias THEN "fit_bias is not supported."
    ELSE None

\* The fields __init__ sets.
NewClassifier(layers, fit_bias, learning_rate, batch_size, n_epochs, tol, verbose, random_state) ==
    [layers |-> layers, fit_bias |-> fit_bias, lr |-> learning_rate,
     batch_size |-> batch_size, n_epochs |-> n_epochs, tol |-> tol,
     verbose |-> verbose, random_state |-> random_state,
     classes |-> NoClasses, model |-> NoModel]

Hyperparameters(c) ==
    <<c.layers, c.fit_bias, c.lr, c.batch_size, c.n_epochs, c.tol, c.verbose,
      c.random_state>>

\* A matrix of n rows and f columns; row i (from 0) stands for the residue
\* of its contents.
MakeX(n, f) == [n_features |-> f, rows |-> [i \in 1..n |-> i + f]]

\* np.unique(y): the distinct labels, ascending.
Unique(y) == SetToSortedSeq(Range(y))

\* X[batch], y[batch] as residues; batch holds indices counted from 0.
Gather(rows, batch) ==
    Residue(SumSeq([k \in 1..Len(batch) |-> rows[batch[k] + 1]]))

NoFrame ==
    [X |-> NoObject, y |-> <<>>, n_samples |-> 0, n_features |-> 0,
     n_classes |-> 0, loss |-> NoObject, params |-> NoObject, epoch |-> -1,
     n_iter |-> 0, it |-> -1, batch |-> <<>>, input_data |-> 0,
     target_data |-> 0, out |-> 0, grad_output |-> 0]

\* An entry that discovers the classes and drops the old model before it
\* checks its arguments.
FitEnterLateCheck(c, r, X, y, sample_weights) ==
    LET r1 == NpRandomSeed(r, c.random_state)
        classes == Unique(y)
        b == BuildModel(X.n_features, c.layers, Len(classes), r1)
    IN IF sample_weights # None
       THEN [err |-> "Specifying sample weights is not supported!",
             clf |-> [c EXCEPT !.classes = classes, !.model = NoModel],
             rng |-> r1, frame |-> NoFrame]
       ELSE IF Len(X.rows) # Len(y)
       THEN [err |-> "Length mismatches",
             clf |-> [c EXCEPT !.classes = classes, !.model = NoModel],
             rng |-> r1, frame |-> NoFrame]
       ELSE IF b.err # None
       THEN [err |-> b.err, clf |-> [c EXCEPT !.classes = classes],
             rng |-> b.rng, frame |-> NoFrame]
       ELSE [err |-> None,
             clf |-> [c EXCEPT !.classes = classes, !.model = b.model],
             rng |-> b.rng,
             frame |-> [NoFrame EXCEPT
                          !.X = X, !.y = y,
                          !.n_samples = Len(X.rows),
                          !.n_features = X.n_features,
                          !.n_classes = Len(classes),
                          !.loss = b.loss,
                          !.params = [lrate |-> c.lr, max_grad_norm |-> 40]]]

\* fit, lines 36-57: the assertions, the seeding, the class discovery, the
\* model.  The result names the error raised (if any) and the classifier, the
\* generator and the locals as the entry leaves them.
FitEnter(c, r, X, y, sample_weights) ==
    IF sample_weights # None
    THEN [err |-> "Specifying sample weights is not supported!",
          clf |-> c, rng |-> r, frame |-> NoFrame]
    ELSE IF Len(X.rows) # Len(y)
    THEN [err |-> "Length mismatches", clf |-> c, rng |-> r, frame |-> NoFrame]
    ELSE
      LET r1 == NpRandomSeed(r, c.random_state)
          classes == Unique(y)
          b == BuildModel(X.n_features, c.layers, Len(classes), r1)
      IN IF b.err # None
         THEN [err |-> b.err, clf |-> [c EXCEPT !.classes = classes],
               rng |-> b.rng, frame |-> NoFrame]
         ELSE [err |-> None,
               clf |-> [c EXCEPT !.classes = classes, !.model = b.model],
               rng |-> b.rng,
               frame |-> [NoFrame EXCEPT
                            !.X = X, !.y = y,
                            !.n_samples = Len(X.rows),
                            !.n_features = X.n_features,
                            !.n_classes = Len(classes),
                            !.loss = b.loss,
                            !.params = [lrate |-> c.lr, max_grad_norm |-> 40]]]

\* range(n_samples / self.batch_size), line 69: the number of iterations of
\* an epoch (ints, floor division).
NumIterations(n_samples, batch_size) == n_samples \div batch_size

\* Lines 72-74: indices[start:end], indices counted from 0.
BatchIndices(it, batch_size, n_samples) ==
    LET start == it * batch_size
        end   == Min((it + 1) * batch_size, n_samples)
    IN [k \in 1..(end - start) |-> start + k - 1]

\* A loop that stops after one epoch once a tolerance is configured.
EpochsToRunUntilTol(c) == IF c.tol > 0 THEN 1 ELSE c.n_epochs

\* range(self.n_epochs), line 60: the number of epochs of a fit.
EpochsToRun(c) == c.n_epochs

\* A loop body that updates the parameters before the backward pass.
NextStatementUpdateFirst(at) ==
    CASE at = "model.fprop" -> "loss.fprop"
      [] at = "loss.fprop"  -> "report"
      [] at = "report"      -> "loss.bprop"
      [] at = "loss.bprop"  -> "model.update"
      [] at = "model.update" -> "model.bprop"
      [] at = "model.bprop" -> "for_it"

\* The statements of the loop body, lines 78-95, in program order; each is
\* named by the position the interpreter is at before it runs.
NextStatement(at) ==
    CASE at = "model.fprop" -> "loss.fprop"
      [] at = "loss.fprop"  -> "report"
      [] at = "report"      -> "loss.bprop"
      [] at = "loss.bprop"  -> "model.bprop"
      [] at = "model.bprop" -> "model.update"
      [] at = "model.update" -> "for_it"

\* A prediction that also applies the gradients the layers hold.
PredictProbaTraining(model, x) ==
    [model |-> SeqUpdate(SeqFprop(model, x).model,
                         [lrate |-> 1, max_grad_norm |-> 40]),
     out   |-> SeqFprop(model, x).out]

\* predict_proba, line 104: what the call does to the model and returns.
PredictProbaCall(model, x) == SeqFprop(model, x)

----------------------------------------------------------------------------
(* misc.train_test_split(X, y, test_size, random_state)                     *)
(*                                                                         *)
(* test_size is a number of quarters, 0..4: these fractions and their       *)
(* products with small ints are exact in binary floating point, so          *)
(* int(orig_size * (1 - test_size)) is (orig_size * (4 - quarters)) div 4.  *)

TestQuarters == {0, 1, 2, 3, 4}

\* The permutations of 0..n-1, as sequences: what np.random.permutation(n)
\* may return.
IndexPermutations(n) ==
    {p \in [1..n -> 0..(n - 1)] : \A i, j \in 1..n : p[i] = p[j] => i = j}

\* a[idx] for an index array idx (indices counted from 0)
Take(a, idx) == [k \in 1..Len(idx) |-> a[idx[k] + 1]]

\* A split whose test slice begins one index early.
TrainTestSplitOverlap(X, y, test_quarters, rand_indices) ==
    IF Len(X) # Len(y)
    THEN [err |-> "X, y have mismatched lengths", X_train |-> <<>>,
          X_test |-> <<>>, y_train |-> <<>>, y_test |-> <<>>]
    ELSE LET orig_size == Len(X)
             train_size == (orig_size * (4 - test_quarters)) \div 4
             train_indices == SubSeq(rand_indices, 1, train_size)
             test_indices == IF train_size = 0 THEN rand_indices
                             ELSE SubSeq(rand_indices, train_size, orig_size)
         IN [err |-> None,
             X_train |-> Take(X, train_indices),
             X_test  |-> Take(X, test_indices),
             y_train |-> Take(y, train_indices),
             y_test  |-> Take(y, test_indices)]

\* Lines 125-134, rand_indices being the permutation drawn at line 129.
TrainTestSplit(X, y, test_quarters, rand_indices) ==
    IF Len(X) # Len(y)
    THEN [err |-> "X, y have mismatched lengths", X_train |-> <<>>,
          X_test |-> <<>>, y_train |-> <<>>, y_test |-> <<>>]
    ELSE LET orig_size == Len(X)
             train_size == (orig_size * (4 - test_quarters)) \div 4
             train_indices == SubSeq(rand_indices, 1, train_size)
             test_indices == SubSeq(rand_indices, train_size + 1, orig_size)
         IN [err |-> None,
             X_train |-> Take(X, train_indices),
             X_test  |-> Take(X, test_indices),
             y_train |-> Take(y, train_indices),
             y_test  |-> Take(y, test_indices)]

----------------------------------------------------------------------------
(* State                                                                    *)
(*   clf        the classifier object (NoObject before any is built)       *)
(*   rng        the state of the process-wide numpy generator; it starts   *)
(*              wherever earlier users of np.random left it (in misc.py,    *)
(*              train_test_split, make_moons and make_blobs seed it and     *)
(*              draw from it)                                               *)
(*   pc         where the interpreter is: "idle", inside fit, or after a    *)
(*              call that returned from fit or raised                       *)
(*   frame      the locals of the running (or just returned) fit            *)
(*   last       the last call made and the error it raised; for fit, also   *)
(*              the lengths of X and y and the sample_weights it was given  *)
(*   calls      the engine calls made for the current batch or prediction   *)
(*   covered    how often each sample index was put in a batch this epoch   *)
(*   trajectory the batches of the current fit, in order                    *)
(*   meter      epochs begun and batch steps completed by the current fit,  *)
(*              and whether the classifier held a model when it began       *)
(*   built      input and result of a stand-alone _build_model call         *)
(*   split      input and result of a train_test_split call                 *)

NoBuild == [input_size |-> 0, layer_sizes |-> <<>>, output_size |-> 0,
            result |-> NoObject]

NoSplit == [X |-> <<>>, y |-> <<>>, test_quarters |-> 0, random_state |-> 0,
            result |-> NoObject]

NoMeter == [epochs |-> 0, steps |-> 0, refit |-> FALSE]

NoCall == [op |-> "none", err |-> None]

Quiescent == pc \in {"idle", "returned", "raised"}

Init ==
    /\ clf = NoObject
    /\ rng \in RngStates
    /\ pc = "idle"
    /\ frame = NoFrame
    /\ last = NoCall
    /\ calls = <<>>
    /\ covered = <<>>
    /\ trajectory = <<>>
    /\ meter = NoMeter
    /\ built = NoBuild
    /\ split = NoSplit

\* MLPClassifier(layers, fit_bias, learning_rate, batch_size, n_epochs, tol,
\* verbose, random_state): the construction of the classifier whose life the
\* model follows.  A failed construction leaves no object.
Construct(layers, fit_bias, learning_rate, batch_size, n_epochs, tol, random_state) ==
    /\ Quiescent
    /\ clf = NoObject
    /\ LET e == InitError(fit_bias, learning_rate)
       IN /\ last' = [op |-> "__init__", err |-> e]
          /\ IF e # None
             THEN /\ pc' = "raised"
                  /\ clf' = clf
             ELSE /\ pc' = "idle"
                  /\ clf' = NewClassifier(layers, fit_bias, learning_rate,
                                          batch_size, n_epochs, tol, TRUE,
                                          random_state)
    /\ frame' = NoFrame
    /\ calls' = <<>>
    /\ covered' = <<>>
    /\ trajectory' = <<>>
    /\ meter' = NoMeter
    /\ UNCHANGED <<rng, built, split>>

\* clf.fit(X, y, sample_weights): lines 36-57.
Fit(X, y, sample_weights) ==
    /\ Quiescent
    /\ clf # NoObject
    /\ \E e \in {FitEnter(clf, rng, X, y, sample_weights)} :
          /\ clf' = e.clf
          /\ rng' = e.rng
          /\ frame' = e.frame
          /\ last' = [op |-> "fit", err |-> e.err, n_rows |-> Len(X.rows),
                      n_labels |-> Len(y), sample_weights |-> sample_weights]
          /\ pc' = IF e.err # None THEN "raised" ELSE "for_epoch"
          /\ meter' = [NoMeter EXCEPT
                         !.refit = (e.err = None /\ clf.model # NoModel)]
    /\ calls' = <<>>
    /\ covered' = <<>>
    /\ trajectory' = <<>>
    /\ UNCHANGED <<built, split>>

\* for epoch in range(self.n_epochs), lines 60-69: the loop variable takes
\* its next value, the report totals are reset and the iteration count of
\* the epoch is computed; or the range is exhausted and fit returns.
ForEpoch ==
    /\ pc = "for_epoch"
    /\ IF frame.epoch + 1 < EpochsToRun(clf)
       THEN /\ pc' = "for_it"
            /\ frame' = [frame EXCEPT
                           !.epoch = @ + 1,
                           !.n_iter = NumIterations(frame.n_samples,
                                                    clf.batch_size),
                           !.it = -1]
            /\ covered' = [i \in 1..frame.n_samples |-> 0]
            /\ meter' = [meter EXCEPT !.epochs = @ + 1]
       ELSE /\ pc' = "returned"
            /\ UNCHANGED <<frame, covered, meter>>
    /\ UNCHANGED <<clf, rng, last, calls, trajectory, built, split>>

\* for it in range(...), lines 69-75: the loop variable takes its next value
\* and the batch is sliced; or the range is exhausted and the epoch ends.
ForIt ==
    /\ pc = "for_it"
    /\ IF frame.it + 1 < frame.n_iter
       THEN LET batch == BatchIndices(frame.it + 1, clf.batch_size,
                                      frame.n_samples)
            IN /\ frame' = [frame EXCEPT
                              !.it = @ + 1,
                              !.batch = batch,
                              !.input_data = Gather(frame.X.rows, batch),
                              !.target_data = Gather(frame.y, batch)]
               /\ covered' = [i \in 1..frame.n_samples |->
                                covered[i] +
                                Cardinality({k \in 1..Len(batch) : batch[k] + 1 = i})]
               /\ trajectory' = Append(trajectory, batch)
               /\ calls' = <<>>
               /\ pc' = "model.fprop"
       ELSE /\ pc' = "for_epoch"
            /\ UNCHANGED <<frame, covered, trajectory, calls>>
    /\ UNCHANGED <<clf, rng, last, meter, built, split>>

Called(op) == Append(calls, [op |-> op, epoch |-> frame.epoch, it |-> frame.it])

\* out = self.model.fprop(input_data), line 78
ModelFprop ==
    /\ pc = "model.fprop"
    /\ \E r \in {SeqFprop(clf.model, frame.input_data)} :
          /\ clf' = [clf EXCEPT !.model = r.model]
          /\ frame' = [frame EXCEPT !.out = r.out]
    /\ calls' = Called("model.fprop")
    /\ pc' = NextStatement(pc)
    /\ UNCHANGED <<rng, last, covered, trajectory, meter, built, split>>

\* total_cost += loss.fprop(out, target_data) and the running totals,
\* lines 79-82; the totals are only reported
LossFpropStep ==
    /\ pc = "loss.fprop"
    /\ calls' = Called("loss.fprop")
    /\ pc' = NextStatement(pc)
    /\ UNCHANGED <<clf, rng, frame, last, covered, trajectory, meter, built, split>>

\* The prints of lines 84-90, which evaluate loss.fprop once more
Report ==
    /\ pc = "report"
    /\ calls' = Called("loss.fprop")
    /\ pc' = NextStatement(pc)
    /\ UNCHANGED <<clf, rng, frame, last, covered, trajectory, meter, built, split>>

\* grad_output = loss.bprop(out, target_data), line 93
LossBpropStep ==
    /\ pc = "loss.bprop"
    /\ frame' = [frame EXCEPT
                   !.grad_output = LossBprop(frame.loss, frame.out,
                                             frame.target_data)]
    /\ calls' = Called("loss.bprop")
    /\ pc' = NextStatement(pc)
    /\ UNCHANGED <<clf, rng, last, covered, trajectory, meter, built, split>>

\* self.model.bprop(input_data, grad_output), line 94
ModelBprop ==
    /\ pc = "model.bprop"
    /\ clf' = [clf EXCEPT !.model = SeqBprop(clf.model, frame.grad_output).model]
    /\ calls' = Called("model.bprop")
    /\ pc' = NextStatement(pc)
    /\ UNCHANGED <<rng, frame, last, covered, trajectory, meter, built, split>>

\* self.model.update(params), line 95
ModelUpdate ==
    /\ pc = "model.update"
    /\ clf' = [clf EXCEPT !.model = SeqUpdate(clf.model, frame.params)]
    /\ calls' = Called("model.update")
    /\ meter' = [meter EXCEPT !.steps = @ + 1]
    /\ pc' = NextStatement(pc)
    /\ UNCHANGED <<rng, frame, last, covered, trajectory, built, split>>

\* clf.predict_proba(X), line 104; X has the width the model was fitted on.
\* Before any fit self.model is None and the call raises.
PredictProba(X) ==
    /\ Quiescent
    /\ clf # NoObject
    /\ IF clf.model = NoModel
       THEN /\ last' = [op |-> "predict_proba", err |-> "AttributeError"]
            /\ pc' = "raised"
            /\ calls' = <<>>
            /\ clf' = clf
       ELSE /\ X.n_features = clf.model[1].nin
            /\ clf' = [clf EXCEPT
                         !.model = PredictProbaCall(clf.model,
                                       Residue(SumSeq(X.rows))).model]
            /\ calls' = <<[op |-> "model.fprop", epoch |-> -1, it |-> -1]>>
            /\ last' = [op |-> "predict_proba", err |-> None]
            /\ pc' = "idle"
    /\ frame' = NoFrame
    /\ covered' = <<>>
    /\ trajectory' = <<>>
    /\ meter' = NoMeter
    /\ UNCHANGED <<rng, built, split>>

\* The arguments fit is called with: every label vector of up to MaxSamples
\* labels with a matrix of as many rows, and, for the shortest label vectors,
\* a matrix with one row too many or a sample_weights argument.
FitArguments ==
    {<<MakeX(Len(y) + d, f), y, w>> :
        <<y, d, f, w>> \in
            {q \in SeqsUpTo(Labels, MaxSamples) \X {0, 1} \X Features
                    \X {None, "weights"} :
                \/ q[2] = 0 /\ q[4] = None
                \/ Len(q[1]) <= 1}}

FitStep ==
    \/ ForEpoch
    \/ ForIt
    \/ ModelFprop
    \/ LossFpropStep
    \/ Report
    \/ LossBpropStep
    \/ ModelBprop
    \/ ModelUpdate

Next ==
    \/ \E layers \in LayerConfigs, fit_bias \in BOOLEAN,
          learning_rate \in LearningRates, batch_size \in 1..MaxBatch,
          n_epochs \in 1..MaxEpochs, tol \in Tolerances,
          random_state \in Seeds :
          Construct(layers, fit_bias, learning_rate, batch_size, n_epochs,
                    tol, random_state)
    \/ \E a \in FitArguments : Fit(a[1], a[2], a[3])
    \/ FitStep
    \/ \E n \in 0..MaxSamples, f \in Features : PredictProba(MakeX(n, f))

Spec == Init /\ [][Next]_vars

\* The interpreter runs a call to its end: no step of fit is postponed
\* forever.
FairSpec == Spec /\ WF_vars(FitStep)

----------------------------------------------------------------------------
(* _build_model on its own: the inputs are drawn by the initial state and   *)
(* the one step applies the function.                                       *)

MaxHidden == 3
MaxWidth == 3

BuildInit ==
    /\ clf = NoObject
    /\ rng \in RngStates
    /\ pc = "idle"
    /\ frame = NoFrame
    /\ last = NoCall
    /\ calls = <<>>
    /\ covered = <<>>
    /\ trajectory = <<>>
    /\ meter = NoMeter
    /\ \E input_size \in 1..MaxWidth, output_size \in 0..MaxWidth,
          layer_sizes \in SeqsUpTo(1..MaxWidth, MaxHidden) :
          built = [input_size |-> input_size, layer_sizes |-> layer_sizes,
                   output_size |-> output_size, result |-> NoObject]
    /\ split = NoSplit

BuildStep ==
    /\ built.result = NoObject
    /\ \E b \in {BuildModel(built.input_size, built.layer_sizes,
                            built.output_size, rng)} :
          /\ built' = [built EXCEPT !.result = b]
          /\ rng' = b.rng
    /\ UNCHANGED <<clf, pc, frame, last, calls, covered, trajectory, meter,
                   split>>

BuildSpec == BuildInit /\ [][BuildStep]_vars

----------------------------------------------------------------------------
(* train_test_split on its own: the inputs are drawn by the initial state   *)
(* and the one step applies the function, with whatever permutation the     *)
(* seeded generator returns.                                                *)

RowValues == {10, 11}

SplitInit ==
    /\ clf = NoObject
    /\ rng \in RngStates
    /\ pc = "idle"
    /\ frame = NoFrame
    /\ last = NoCall
    /\ calls = <<>>
    /\ covered = <<>>
    /\ trajectory = <<>>
    /\ meter = NoMeter
    /\ built = NoBuild
    /\ \E X \in SeqsUpTo(RowValues, MaxSamples), y \in SeqsUpTo(Labels, MaxSamples),
          test_quarters \in TestQuarters, random_state \in Seeds :
          split = [X |-> X, y |-> y, test_quarters |-> test_quarters,
                   random_state |-> random_state, result |-> NoObject]

SplitStep ==
    /\ split.result = NoObject
    /\ IF Len(split.X) # Len(split.y)
       THEN /\ split' = [split EXCEPT
                          !.result = TrainTestSplit(split.X, split.y,
                                         split.test_quarters, <<>>)]
            /\ rng' = rng
       ELSE \E rand_indices \in IndexPermutations(Len(split.X)) :
               /\ split' = [split EXCEPT
                             !.result = TrainTestSplit(split.X, split.y,
                                            split.test_quarters, rand_indices)]
               /\ rng' = NpRandomDraw(NpRandomSeed(rng, split.random_state))
    /\ UNCHANGED <<clf, pc, frame, last, calls, covered, trajectory, meter,
                   built>>

SplitSpec == SplitInit /\ [][SplitStep]_vars

----------------------------------------------------------------------------
(* A whole fit as a function: the run of fit(X, y) on a classifier that was *)
(* just constructed with the configuration of c, the generator being in     *)
(* state r when the call is made.                                           *)

\* One pass of the loop body, lines 78-95, over one batch.
TrainBatch(model, loss, params, input_data, target_data) ==
    LET f == SeqFprop(model, input_data)
        g == LossBprop(loss, f.out, target_data)
    IN SeqUpdate(SeqBprop(f.model, g).model, params)

RECURSIVE RunIterations(_, _, _, _, _)
RunIterations(c, fr, it, model, traj) ==
    IF it >= NumIterations(fr.n_samples, c.batch_size)
    THEN [model |-> model, trajectory |-> traj]
    ELSE LET batch == BatchIndices(it, c.batch_size, fr.n_samples)
         IN RunIterations(c, fr, it + 1,
                TrainBatch(model, fr.loss, fr.params,
                           Gather(fr.X.rows, batch), Gather(fr.y, batch)),
                Append(traj, batch))

RECURSIVE RunEpochs(_, _, _, _, _)
RunEpochs(c, fr, epoch, model, traj) ==
    IF epoch >= EpochsToRun(c) THEN [model |-> model, trajectory |-> traj]
    ELSE LET e == RunIterations(c, fr, 0, model, traj)
         IN RunEpochs(c, fr, epoch + 1, e.model, e.trajectory)

FreshFit(c, r, X, y) ==
    LET new == NewClassifier(c.layers, c.fit_bias, c.lr, c.batch_size,
                             c.n_epochs, c.tol, c.verbose, c.random_state)
        e == FitEnter(new, r, X, y, None)
        run == RunEpochs(e.clf, e.frame, 0, e.clf.model, <<>>)
    IN [classes |-> e.clf.classes, model |-> run.model,
        trajectory |-> run.trajectory]

----------------------------------------------------------------------------
(* Properties                                                               *)

InBody == pc \in {"model.fprop", "loss.fprop", "report", "loss.bprop",
                  "model.bprop", "model.update"}

InFit == InBody \/ pc \in {"for_epoch", "for_it"}

EntryErrors == {"Specifying sample weights is not supported!",
                "Length mismatches"}

\* C1: in every epoch of fit every sample index 0..n_samples-1 is put in
\* exactly one mini-batch, the leftover samples going to a shorter last
\* batch: once an epoch has ended, each index was covered once.
C1_EverySampleOncePerEpoch ==
    ((pc = "for_epoch" /\ frame.epoch >= 0) \/ pc = "returned") =>
        \A i \in 1..frame.n_samples : covered[i] = 1

\* What the loop does instead: only the floor(n_samples / batch_size) full
\* batches are formed, so the first of them cover each of their indices once
\* and the n_samples mod batch_size last indices are never covered.
C1_OnlyFullBatches ==
    ((pc = "for_epoch" /\ frame.epoch >= 0) \/ pc = "returned") =>
        \A i \in 1..frame.n_samples :
            covered[i] = IF i <= clf.batch_size *
                                 (frame.n_samples \div clf.batch_size)
                         THEN 1 ELSE 0

ClaimedOrder == <<"model.fprop", "loss.fprop", "loss.bprop", "model.bprop",
                  "model.update">>

\* A log of calls with runs of the same operation taken as one.
RECURSIVE Collapse(_)
Collapse(log) ==
    IF Len(log) <= 1 THEN [i \in 1..Len(log) |-> log[i].op]
    ELSE IF log[1].op = log[2].op THEN Collapse(Tail(log))
    ELSE <<log[1].op>> \o Collapse(Tail(log))

IsPrefix(p, q) == Len(p) <= Len(q) /\ \A i \in 1..Len(p) : p[i] = q[i]

Count(log, op) == Cardinality({i \in 1..Len(log) : log[i].op = op})

\* C2: for every mini-batch the engine is called in the order model.fprop,
\* loss.fprop, loss.bprop, model.bprop, model.update, all for that batch;
\* model.fprop, model.bprop and model.update are each called once, and the
\* update of a batch is done before the next batch begins.
C2_BatchStepOrder ==
    (InFit \/ pc = "returned") =>
        /\ IsPrefix(Collapse(calls), ClaimedOrder)
        /\ \A op \in {"model.fprop", "model.bprop", "model.update"} :
              Count(calls, op) <= 1
        /\ InBody => /\ \A i \in 1..Len(calls) :
                          /\ calls[i].epoch = frame.epoch
                          /\ calls[i].it = frame.it
                     /\ meter.steps = Len(trajectory) - 1
        /\ ~InBody => /\ calls # <<>> => Collapse(calls) = ClaimedOrder
                      /\ meter.steps = Len(trajectory)

C2_TwoBatchesDone ==
    /\ pc = "for_it"
    /\ Len(trajectory) >= 2
    /\ Collapse(calls) = ClaimedOrder

\* C3: a fit call with a sample_weights argument, or with len(X) # len(y),
\* raises at entry: the classifier (its model and class set included) is as
\* it was and no step of training follows.
C3_RejectedFitChangesNothing ==
    [][(/\ last'.op = "fit"
        /\ \/ last'.sample_weights # None
           \/ last'.n_rows # last'.n_labels) =>
          /\ last'.err \in EntryErrors
          /\ clf' = clf
          /\ pc' = "raised"
          /\ meter'.steps = 0
          /\ calls' = <<>>]_vars

C3_RejectedWithTrainedModel ==
    /\ last.op = "fit"
    /\ last.err \in EntryErrors
    /\ clf.model # NoModel
    /\ clf.classes # NoClasses

\* C4: a fit that returns has gone through the batches, and ends with the
\* model and class set, of a first fit of the same data on a newly built
\* classifier of the same configuration, whatever the classifier held and
\* wherever the generator stood before the call.
C4_FitIsDeterministic ==
    pc = "returned" =>
        \A r \in RngStates :
            \A f \in {FreshFit(clf, r, frame.X, frame.y)} :
                /\ trajectory = f.trajectory
                /\ clf.model = f.model
                /\ clf.classes = f.classes

C4_RefitReturned ==
    /\ pc = "returned"
    /\ meter.refit
    /\ Len(trajectory) >= 2

\* The statements fit has still to run: those left in the loop body, the
\* iterations not begun, the epochs not begun and the loop heads that end
\* them.  No tolerance enters it.
StatementsLeft ==
    LET body  == 7
        iters == frame.n_samples \div clf.batch_size
        epochsLeft == clf.n_epochs - (frame.epoch + 1)
        itersLeft  == frame.n_iter - (frame.it + 1)
        inBody == CASE pc = "model.fprop"  -> 6
                    [] pc = "loss.fprop"   -> 5
                    [] pc = "report"       -> 4
                    [] pc = "loss.bprop"   -> 3
                    [] pc = "model.bprop"  -> 2
                    [] pc = "model.update" -> 1
                    [] OTHER               -> 0
    IN IF pc = "for_epoch" THEN epochsLeft * (iters * body + 2) + 1
       ELSE IF InFit
       THEN epochsLeft * (iters * body + 2) + 1 + itersLeft * body + 1 + inBody
       ELSE 0

\* C5: a fit of valid input returns, and when it returns it has run exactly
\* n_epochs epochs of floor(n_samples / batch_size) batch steps each,
\* whatever tol is; a fit raises only on invalid input.  Inside fit a step
\* is always possible, every step leaves fewer statements to run and stays
\* inside fit until it returns, and so (the interpreter running on) fit
\* returns.
C5_FitRunsAllEpochs ==
    /\ [](pc = "returned" =>
            /\ meter.epochs = clf.n_epochs
            /\ meter.steps = clf.n_epochs *
                             (frame.n_samples \div clf.batch_size))
    /\ []((pc = "raised" /\ last.op = "fit") =>
            (last.err \in EntryErrors \/ clf.layers = <<>>))
    /\ [](InFit => StatementsLeft > 0 /\ ENABLED FitStep)
    /\ [][InFit => /\ InFit' \/ pc' = "returned"
                   /\ StatementsLeft' < StatementsLeft]_vars
    /\ (InFit ~> pc = "returned")

C5_ReturnedWithTol ==
    /\ pc = "returned"
    /\ clf.tol > 0
    /\ meter.epochs >= 2
    /\ meter.steps >= 2

\* C6: predict_proba on a fitted classifier calls model.fprop once and
\* nothing else, and leaves the layer chain, the learnable parameters, the
\* class set and the hyperparameters as they were.
C6_PredictProbaReadOnly ==
    [][(last'.op = "predict_proba" /\ last'.err = None) =>
          /\ Chain(clf'.model) = Chain(clf.model)
          /\ Parameters(clf'.model) = Parameters(clf.model)
          /\ clf'.classes = clf.classes
          /\ Hyperparameters(clf') = Hyperparameters(clf)
          /\ Len(calls') = 1
          /\ calls'[1].op = "model.fprop"]_vars

C6_PredictedAfterTraining ==
    /\ last.op = "predict_proba"
    /\ last.err = None
    /\ \E i \in 1..Len(clf.model) :
          clf.model[i].kind = "Linear" /\ clf.model[i].dW # 0

\* C7: no classifier exists with a non-positive learning rate or with
\* fit_bias enabled: such a construction raises and leaves no object, so
\* fit is never running on one.
C7_InvalidConfigNeverConstructed ==
    /\ clf # NoObject => clf.lr > 0 /\ ~clf.fit_bias
    /\ (last.op = "__init__" /\ last.err # None) =>
          clf = NoObject /\ pc = "raised"
    /\ (InFit \/ pc = "returned") => clf # NoObject

C7_ConstructionRejected ==
    /\ last.op = "__init__"
    /\ last.err = "Learning rate must be positive."
    /\ clf = NoObject

\* C8: the chain _build_model returns for a non-empty list of hidden widths
\* is Linear, Sigmoid once per hidden width, then Linear, Softmax; the first
\* Linear takes input_size inputs, every Linear's output width is the next
\* Linear's input width, and the last Linear outputs output_size.
C8_ChainDimensions ==
    (built.result # NoObject /\ Len(built.layer_sizes) > 0) =>
        LET model == built.result.model
            L == Len(built.layer_sizes)
        IN /\ built.result.err = None
           /\ Len(model) = 2 * L + 2
           /\ \A k \in 1..L : /\ model[2 * k - 1].kind = "Linear"
                              /\ model[2 * k].kind = "Sigmoid"
                              /\ model[2 * k - 1].nout = built.layer_sizes[k]
                              /\ model[2 * k - 1].nout = model[2 * k + 1].nin
           /\ model[2 * L + 1].kind = "Linear"
           /\ model[2 * L + 2].kind = "Softmax"
           /\ model[1].nin = built.input_size
           /\ model[2 * L + 1].nout = built.output_size

C8_BuiltTwoHidden ==
    /\ built.result # NoObject
    /\ Len(built.layer_sizes) >= 2
    /\ built.layer_sizes[1] # built.layer_sizes[Len(built.layer_sizes)]
    /\ Len(built.result.model) >= 6

\* C9: in every model fit builds, the loss fuses the softmax gradient
\* exactly if the chain's Softmax skips its own backward pass, that Softmax
\* is the last layer and follows a Linear layer; so the gradient loss.bprop
\* returned is the gradient the last Linear layer was given by the backward
\* pass.
C9_FusedLossSkipsSoftmax ==
    (InFit \/ pc = "returned") =>
        LET model == clf.model
            n == Len(model)
        IN /\ model[n].kind = "Softmax"
           /\ model[n - 1].kind = "Linear"
           /\ \A i \in 1..(n - 1) : model[i].kind # "Softmax"
           /\ frame.loss.do_softmax_bprop <=> model[n].skip_bprop
           /\ frame.loss.do_softmax_bprop
           /\ pc = "model.update" =>
                 /\ model[n - 1].db = frame.grad_output
                 /\ BpropGrad(model, n - 1, frame.grad_output) = frame.grad_output

C9_NonZeroGradientPassed ==
    /\ pc = "model.update"
    /\ frame.grad_output # 0

\* The pairs <<X row, y value>> of two arrays, and how often a pair occurs.
Pairs(X, y) == [k \in 1..Len(X) |-> <<X[k], y[k]>>]

Occurrences(s, v) == Cardinality({k \in 1..Len(s) : s[k] = v})

\* C10: train_test_split rejects X and y of different lengths; otherwise
\* the training rows followed by the test rows are a permutation of the
\* input rows, each with the y value it had (so no row is in both sets), the
\* training set has int(n * (1 - test_size)) rows and the test set the rest.
C10_SplitIsPartition ==
    split.result # NoObject =>
        LET r == split.result
            n == Len(split.X)
        IN IF Len(split.X) # Len(split.y)
           THEN r.err # None
           ELSE /\ r.err = None
                /\ Len(r.X_train) = (n * (4 - split.test_quarters)) \div 4
                /\ Len(r.X_test) = n - Len(r.X_train)
                /\ Len(r.y_train) = Len(r.X_train)
                /\ Len(r.y_test) = Len(r.X_test)
                /\ \A v \in RowValues \X Labels :
                      Occurrences(Pairs(r.X_train, r.y_train)
                                  \o Pairs(r.X_test, r.y_test), v)
                      = Occurrences(Pairs(split.X, split.y), v)

C10_SplitShuffled ==
    /\ split.result # NoObject
    /\ split.result.err = None
    /\ Len(split.result.X_train) >= 1
    /\ Len(split.result.X_test) >= 1
    /\ split.result.X_train \o split.result.X_test # split.X

====
